---- MODULE Spec2Model ----
(***************************************************************************)
(* file_stats: a command-line tool that counts the lines, words and bytes  *)
(* of a text file, ranks its words by frequency and optionally exports the *)
(* result as JSON (src/file_stats.cpp).                                    *)
(*                                                                         *)
(* Bytes are the integers 0..255 (unsigned char), strings of the input     *)
(* file and tokens are sequences of bytes.  argv holds argv[1..argc-1];    *)
(* argv[0], the program name, only appears in the help text.               *)
(***************************************************************************)
EXTENDS Integers, Sequences, FiniteSets, TLC

VARIABLES
    argv,       \* argv[1..argc-1] of main
    locale,     \* the C locale std::setlocale(LC_ALL, "") selects
    ubTolower,  \* what std::tolower does for a negative char (undefined behaviour)
    pc,         \* position of the single thread of control
    argi,       \* parse_args: loop variable i
    conf,       \* Config
    content,    \* bytes of the input file once it is open
    pos,        \* analyze_file: read position of `in` (1-based)
    line,       \* analyze_file: the line std::getline delivered
    idx,        \* analyze_file: loop variable i over the line (0-based)
    token,      \* analyze_file: the token being built
    st,         \* Stats
    top,        \* result of top_k
    printed,    \* main: number of entries of top already printed
    stdout,     \* what was written to std::cout
    stderr,     \* what was written to std::cerr
    fs,         \* what the invocation did to / learnt from the file system
    exc,        \* the exception in flight ("none" when there is none)
    exitCode    \* "running", then the exit status "0", "1" or "2", or
                \* "terminate" when std::terminate ended the process

vars == <<argv, locale, ubTolower, pc, argi, conf, content, pos, line, idx,
          token, st, top, printed, stdout, stderr, fs, exc, exitCode>>

(***************************************************************************)
(* Bounds of the model.                                                    *)
(***************************************************************************)
MaxFileLen == 4     \* longest input file of the scan specification
MaxArgs == 4        \* most arguments after the program name
MaxCount == 2       \* largest count of a drawn frequency table
MaxK == 4           \* largest requested K of a drawn top_k call

(***************************************************************************)
(* Bytes used in input files: '\n', ' ', 'A', 'a' and 0xC9 (an upper-case  *)
(* letter in ISO-8859-1, a lead byte of nothing in ASCII).                 *)
(***************************************************************************)
LF == 10
Bytes == {LF, 32, 65, 97, 201}

\* the locales of the environment, each with what std::tolower does for a
\* negative char; in the "C" locale no byte above 127 is alphanumeric, so
\* the call never gets one
Environments == {<<"C", "table">>, <<"Latin1", "table">>, <<"Latin1", "identity">>}

RECURSIVE SeqsUpTo(_, _)
SeqsUpTo(S, n) ==
    IF n = 0 THEN {<<>>}
    ELSE LET shorter == SeqsUpTo(S, n - 1)
         IN  shorter \cup {Append(s, x) : s \in {t \in shorter : Len(t) = n - 1}, x \in S}

(***************************************************************************)
(* <cctype> in the two locales.                                            *)
(***************************************************************************)
IsAsciiAlnum(ch) ==
    \/ ch \in 48..57
    \/ ch \in 65..90
    \/ ch \in 97..122

\* std::isalnum(int) in the current C locale: in a single-byte Latin-1 locale
\* the accented letters 0xC0..0xFF (but 0xD7, 0xF7) and 0xAA, 0xB5, 0xBA are
\* alphabetic as well.
isalnum(ch, loc) ==
    \/ IsAsciiAlnum(ch)
    \/ /\ loc = "Latin1"
       /\ ch \in ((192..255) \ {215, 247}) \cup {170, 181, 186}

\* std::tolower(int) for an argument in 0..255 in the current C locale.
tolowerTable(ch, loc) ==
    IF ch \in 65..90 THEN ch + 32
    ELSE IF loc = "Latin1" /\ ch \in (192..222) \ {215} THEN ch + 32
    ELSE ch

\* static_cast<char>(std::tolower(c)) for c = static_cast<char>(ch): for
\* ch >= 128 the char is negative and the call is undefined; the libraries
\* either index their table with it (which maps like the byte) or leave it.
tolower(ch, loc, ub) ==
    IF ch < 128 THEN tolowerTable(ch, loc)
    ELSE IF ub = "table" THEN tolowerTable(ch, loc)
    ELSE ch

is_word_char(ch, loc) == isalnum(ch, loc)

(***************************************************************************)
(* Stats and the token flush of analyze_file.                              *)
(***************************************************************************)
EmptyFreq == [w \in {} |-> 0]

Stats0 == [lines |-> 0, words |-> 0, bytes |-> 0, freq |-> EmptyFreq]

\* ++st.freq[token]
IncFreq(freq, w) ==
    IF w \in DOMAIN freq THEN [freq EXCEPT ![w] = @ + 1]
    ELSE [x \in DOMAIN freq \cup {w} |-> IF x = w THEN 1 ELSE freq[x]]

\* a flush that counts the word and leaves the frequency table alone
Flush_WordsOnly(s, tok) ==
    IF tok # <<>> THEN [s EXCEPT !.words = @ + 1] ELSE s

\* if (!token.empty()) { ++st.words; ++st.freq[token]; token.clear(); }
\* gives the new Stats; the token is cleared by the caller.
Flush(s, tok) ==
    IF tok # <<>>
    THEN [s EXCEPT !.words = @ + 1, !.freq = IncFreq(s.freq, tok)]
    ELSE s

\* the character appended to the token for the word character ch
Folded(ch, cs, loc, ub) == IF ~cs THEN tolower(ch, loc, ub) ELSE ch

(***************************************************************************)
(* analyze_file: the scan loop.                                            *)
(***************************************************************************)
\* index of the first '\n' at or after p, or Len(c) + 1
RECURSIVE LineEnd(_, _)
LineEnd(c, p) ==
    IF p > Len(c) \/ c[p] = LF THEN p ELSE LineEnd(c, p + 1)

\* while (std::getline(in, line)) { ++st.lines; ... token; i = 0
GetLine ==
    /\ pc = "getline"
    /\ pos <= Len(content)
    /\ LET e == LineEnd(content, pos)
       IN  /\ line' = SubSeq(content, pos, e - 1)
           /\ pos' = e + 1
    /\ st' = [st EXCEPT !.lines = @ + 1]
    /\ token' = <<>>
    /\ idx' = 0
    /\ pc' = "scan"
    /\ UNCHANGED <<argv, locale, ubTolower, argi, conf, content, top, printed,
                   stdout, stderr, fs, exc, exitCode>>

\* one iteration of for (i = 0; i < n; ++i)
ScanChar ==
    /\ pc = "scan"
    /\ idx < Len(line)
    /\ LET ch == line[idx + 1]
       IN  IF is_word_char(ch, locale)
           THEN /\ token' = Append(token, Folded(ch, conf.case_sensitive, locale, ubTolower))
                /\ st' = st
           ELSE /\ st' = Flush(st, token)
                /\ token' = <<>>
    /\ idx' = idx + 1
    /\ UNCHANGED <<argv, locale, ubTolower, pc, argi, conf, content, pos, line,
                   top, printed, stdout, stderr, fs, exc, exitCode>>

\* the flush after the for loop, at the end of the line
EndOfLine ==
    /\ pc = "scan"
    /\ idx >= Len(line)
    /\ st' = Flush(st, token)
    /\ token' = <<>>
    /\ pc' = "getline"
    /\ UNCHANGED <<argv, locale, ubTolower, argi, conf, content, pos, line, idx,
                   top, printed, stdout, stderr, fs, exc, exitCode>>

\* std::getline fails at end of file: the while loop ends
ScanDone ==
    /\ pc = "getline"
    /\ pos > Len(content)
    /\ pc' = "file_size"
    /\ UNCHANGED <<argv, locale, ubTolower, argi, conf, content, pos, line, idx,
                   token, st, top, printed, stdout, stderr, fs, exc, exitCode>>

Conf0 == [input_path |-> "", json_path |-> "", topN |-> 20, case_sensitive |-> FALSE]

Fs0 == [inputOpen |-> "none", sizeQuery |-> "none", reopen |-> "none",
        bytesRead |-> 0, jsonOpen |-> "none", jsonFile |-> <<>>]

\* analyze_file right after `in` was opened, for every file content, either
\* case mode and every locale
InitScan ==
    /\ argv = <<"in.txt">>
    /\ \E env \in Environments : locale = env[1] /\ ubTolower = env[2]
    /\ pc = "getline"
    /\ argi = 2
    /\ \E cs \in BOOLEAN :
          conf = [Conf0 EXCEPT !.input_path = "in.txt", !.case_sensitive = cs]
    /\ content \in SeqsUpTo(Bytes, MaxFileLen)
    /\ pos = 1
    /\ line = <<>>
    /\ idx = 0
    /\ token = <<>>
    /\ st = Stats0
    /\ top = <<>>
    /\ printed = 0
    /\ stdout = <<>>
    /\ stderr = <<>>
    /\ fs = [Fs0 EXCEPT !.inputOpen = "ok"]
    /\ exc = "none"
    /\ exitCode = "running"

NextScan == GetLine \/ ScanChar \/ EndOfLine \/ ScanDone

SpecScan == InitScan /\ [][NextScan]_vars

(***************************************************************************)
(* Words counted against the frequency table.                              *)
(***************************************************************************)
RECURSIVE SumCounts(_, _)
SumCounts(f, D) ==
    IF D = {} THEN 0
    ELSE LET w == CHOOSE x \in D : TRUE
         IN  f[w] + SumCounts(f, D \ {w})

FreqTotal(f) == SumCounts(f, DOMAIN f)

\* C1: during and after the scan the word counter equals the sum of all
\* counts of the frequency table, and every step changes the two together:
\* by one (a token flush, which raises exactly one entry by one) or not at
\* all; no count is ever decremented and no entry removed.
C1_WordsEqualFreqTotal ==
    /\ [](st.words = FreqTotal(st.freq))
    /\ [][/\ st'.words - st.words = FreqTotal(st'.freq) - FreqTotal(st.freq)
          /\ st'.words - st.words \in {0, 1}
          /\ \A w \in DOMAIN st.freq :
                w \in DOMAIN st'.freq /\ st'.freq[w] >= st.freq[w]
          /\ Cardinality({w \in DOMAIN st'.freq :
                            w \notin DOMAIN st.freq \/ st'.freq[w] # st.freq[w]})
               = st'.words - st.words]_vars

\* a scan that flushed the same token twice, once inside a line and once at
\* a line end
C1_Witness ==
    /\ pc = "file_size"
    /\ st.lines = 2
    /\ st.words = 2
    /\ Cardinality(DOMAIN st.freq) = 1

(***************************************************************************)
(* analyze_file's scan as a function of the file content, for comparing    *)
(* the two case modes on one file.                                         *)
(***************************************************************************)
\* the for loop over one line followed by the flush at its end, from index k
RECURSIVE ScanLine(_, _, _, _, _, _, _)
ScanLine(s, tok, ln, k, cs, loc, ub) ==
    IF k >= Len(ln) THEN Flush(s, tok)
    ELSE LET ch == ln[k + 1]
         IN  IF is_word_char(ch, loc)
             THEN ScanLine(s, Append(tok, Folded(ch, cs, loc, ub)), ln, k + 1, cs, loc, ub)
             ELSE ScanLine(Flush(s, tok), <<>>, ln, k + 1, cs, loc, ub)

\* the while (std::getline(in, line)) loop from read position p
RECURSIVE ScanFile(_, _, _, _, _, _)
ScanFile(s, c, p, cs, loc, ub) ==
    IF p > Len(c) THEN s
    ELSE LET e == LineEnd(c, p)
         IN  ScanFile(ScanLine([s EXCEPT !.lines = @ + 1], <<>>, SubSeq(c, p, e - 1),
                               0, cs, loc, ub),
                      c, e + 1, cs, loc, ub)

(***************************************************************************)
(* Tokens as the specification defines them: maximal runs of ASCII letters *)
(* and digits, ASCII upper case folded unless case-sensitive.              *)
(***************************************************************************)
IsMaximalRun(c, i, j) ==
    /\ i <= j
    /\ \A k \in i..j : IsAsciiAlnum(c[k])
    /\ i = 1 \/ ~IsAsciiAlnum(c[i - 1])
    /\ j = Len(c) \/ ~IsAsciiAlnum(c[j + 1])

MaximalRuns(c) ==
    {r \in (1..Len(c)) \X (1..Len(c)) : IsMaximalRun(c, r[1], r[2])}

AsciiLower(ch) == IF ch \in 65..90 THEN ch + 32 ELSE ch

AsciiFold(w) == [k \in 1..Len(w) |-> AsciiLower(w[k])]

RefToken(c, r, cs) ==
    IF cs THEN SubSeq(c, r[1], r[2]) ELSE AsciiFold(SubSeq(c, r[1], r[2]))

RefCount(c, cs, w) ==
    Cardinality({r \in MaximalRuns(c) : RefToken(c, r, cs) = w})

\* C3: after the scan the frequency table is the multiset of the maximal
\* runs of ASCII letters and digits of the file, a run never crossing a
\* line end, ASCII upper case folded unless case-sensitive, and no empty
\* token is counted.
C3_FreqIsTokenMultiset ==
    pc = "file_size" =>
        /\ \A w \in DOMAIN st.freq :
              w # <<>> /\ st.freq[w] = RefCount(content, conf.case_sensitive, w)
        /\ \A r \in MaximalRuns(content) :
              RefToken(content, r, conf.case_sensitive) \in DOMAIN st.freq

\* C4: the two case modes give the same line count and the same word
\* count on one file, the case-insensitive table has no more distinct words
\* than the case-sensitive one, and the case-insensitive count of a word is
\* the sum of the case-sensitive counts of the words whose ASCII fold it is.
C4_ModesAgree ==
    pc = "file_size" /\ ~conf.case_sensitive =>
        LET cs == ScanFile(Stats0, content, 1, TRUE, locale, ubTolower)
        IN  /\ st.lines = cs.lines
            /\ st.words = cs.words
            /\ Cardinality(DOMAIN st.freq) <= Cardinality(DOMAIN cs.freq)
            /\ \A w \in DOMAIN st.freq :
                  st.freq[w] = SumCounts(cs.freq, {x \in DOMAIN cs.freq : AsciiFold(x) = w})
            /\ \A x \in DOMAIN cs.freq : AsciiFold(x) \in DOMAIN st.freq

\* the stepwise scan and the scan as a function give the same Stats
ScanFileAgrees ==
    pc = "file_size" =>
        st = ScanFile(Stats0, content, 1, conf.case_sensitive, locale, ubTolower)

(***************************************************************************)
(* top_k.                                                                  *)
(***************************************************************************)
\* std::string operator<: lexicographic over the bytes as unsigned values,
\* a proper prefix before the longer string
RECURSIVE StringLess(_, _)
StringLess(a, b) ==
    IF b = <<>> THEN FALSE
    ELSE IF a = <<>> THEN TRUE
    ELSE IF a[1] # b[1] THEN a[1] < b[1]
    ELSE StringLess(Tail(a), Tail(b))

\* a comparison by count alone, without the tie-break by word
Comp_CountOnly(a, b) == a[2] > b[2]

\* the lambda given to std::partial_sort; an entry is <<word, count>>
Comp(a, b) ==
    IF a[2] # b[2] THEN a[2] > b[2]
    ELSE StringLess(a[1], b[1])

\* index in from..Len(v) of the entry no other entry of that range precedes
RECURSIVE MinIndex(_, _, _)
MinIndex(v, from, best) ==
    IF from > Len(v) THEN best
    ELSE MinIndex(v, from + 1, IF Comp(v[from], v[best]) THEN from ELSE best)

Swap(v, i, j) == [v EXCEPT ![i] = v[j], ![j] = v[i]]

\* std::partial_sort(first, first + m, last, Comp): afterwards the first m
\* places hold the m foremost entries in order; the rest is in some order
RECURSIVE partial_sort(_, _, _)
partial_sort(v, m, i) ==
    IF i > m THEN v
    ELSE partial_sort(Swap(v, i, MinIndex(v, i, i)), m, i + 1)

Min(a, b) == IF a < b THEN a ELSE b

\* top_k on the vector v built from the map, already in the map's order
top_k(v, k) ==
    LET sorted == partial_sort(v, Min(k, Len(v)), 1)
    IN  IF Len(v) > k THEN SubSeq(sorted, 1, k) ELSE sorted

\* the orders in which the unordered_map may hand out its entries
Entries(freq) == {<<w, freq[w]>> : w \in DOMAIN freq}

Orders(S) ==
    {v \in [1..Cardinality(S) -> S] : \A i, j \in 1..Cardinality(S) : v[i] = v[j] => i = j}

\* auto top = top_k(st.freq, conf.topN);
TopK ==
    /\ pc = "top_k"
    /\ \E v \in Orders(Entries(st.freq)) : top' = top_k(v, conf.topN)
    /\ pc' = "report"
    /\ UNCHANGED <<argv, locale, ubTolower, argi, conf, content, pos, line, idx,
                   token, st, printed, stdout, stderr, fs, exc, exitCode>>

\* words of the drawn frequency tables: "A", "a", "aa" and the byte 0xC9
TopWords == {<<65>>, <<97>>, <<97, 97>>, <<201>>}

FreqTables ==
    UNION {[D -> 1..MaxCount] : D \in SUBSET TopWords}

\* a call of top_k for every frequency table and every K
InitTopK ==
    /\ argv = <<"in.txt">>
    /\ locale = "C"
    /\ ubTolower = "table"
    /\ pc = "top_k"
    /\ argi = 2
    /\ \E k \in 0..MaxK : conf = [Conf0 EXCEPT !.input_path = "in.txt", !.topN = k]
    /\ content = <<>>
    /\ pos = 1
    /\ line = <<>>
    /\ idx = 0
    /\ token = <<>>
    /\ \E f \in FreqTables :
          st = [Stats0 EXCEPT !.freq = f, !.words = FreqTotal(f)]
    /\ top = <<>>
    /\ printed = 0
    /\ stdout = <<>>
    /\ stderr = <<>>
    /\ fs = [Fs0 EXCEPT !.inputOpen = "ok"]
    /\ exc = "none"
    /\ exitCode = "running"

NextTopK == TopK

SpecTopK == InitTopK /\ [][NextTopK]_vars

\* the ranking rule of the specification: count descending, then word
\* ascending byte by byte
RECURSIVE BytesBefore(_, _, _)
BytesBefore(a, b, i) ==
    IF i > Len(b) THEN FALSE
    ELSE IF i > Len(a) THEN TRUE
    ELSE IF a[i] < b[i] THEN TRUE
    ELSE IF a[i] > b[i] THEN FALSE
    ELSE BytesBefore(a, b, i + 1)

RanksBefore(a, b) ==
    \/ a[2] > b[2]
    \/ a[2] = b[2] /\ BytesBefore(a[1], b[1], 1)

\* C2: top_k returns min(K, number of distinct words) entries of the
\* table, no word twice, ordered by count descending and then word
\* ascending, and no entry left out ranks before a returned one; the result
\* is empty for K = 0 and for an empty table.
C2_TopKRanked ==
    pc = "report" =>
        LET F == Entries(st.freq)
            n == Len(top)
        IN  /\ n = Min(conf.topN, Cardinality(DOMAIN st.freq))
            /\ \A i \in 1..n : top[i] \in F
            /\ \A i, j \in 1..n : i < j => RanksBefore(top[i], top[j])
            /\ \A e \in F : (\A i \in 1..n : top[i] # e) =>
                              \A i \in 1..n : RanksBefore(top[i], e)
            /\ (conf.topN = 0 \/ st.freq = EmptyFreq) => top = <<>>

\* "b b a a"-like tie with a cut: three words of equal count, K = 2, and
\* the byte 0xC9 left out behind "A"
C2_Witness ==
    /\ pc = "report"
    /\ conf.topN = 2
    /\ DOMAIN st.freq = {<<65>>, <<97>>, <<201>>}
    /\ \A w \in DOMAIN st.freq : st.freq[w] = 2
    /\ top = << <<(<<65>>), 2>>, <<(<<97>>), 2>> >>

(***************************************************************************)
(* main and parse_args.                                                    *)
(***************************************************************************)
\* the strings the arguments are drawn from
ArgTokens ==
    {"in.txt", "--help", "-h", "--top", "--json", "--case-sensitive",
     "--bogus", "2", "abc", ""}

\* the input files main is run on: empty, "a\n", "a A\n\xC9" and "A a a"
MainFiles ==
    {<<>>, <<97, LF>>, <<97, 32, 65, LF, 201>>, <<65, 32, 97, 32, 97>>}

argc == Len(argv) + 1

\* a line written to std::cout or std::cerr
Out(kind, text, num, word) ==
    [kind |-> kind, text |-> text, num |-> num, word |-> word, path |-> ""]

\* "Error: " << ex.what(), the message and the path it ends with
ErrorLine(e) == [Out("Error: ", e.what, 0, <<>>) EXCEPT !.path = e.path]

\* print_help writes the usage text to std::cout
HelpText == Out("help", "", 0, <<>>)

\* std::stoul on the argument strings: "2" converts, every other string of
\* ArgTokens starts with no digit and makes it throw std::invalid_argument
stoul(s) ==
    IF s = "2" THEN [ok |-> TRUE, value |-> 2] ELSE [ok |-> FALSE, value |-> 0]

\* if (argc < 2) return false; conf.input_path = argv[1]; i = 2
ParseStart ==
    /\ pc = "parse_args"
    /\ IF argc < 2
       THEN /\ pc' = "usage"
            /\ UNCHANGED <<conf, argi, exc>>
       ELSE /\ conf' = [conf EXCEPT !.input_path = argv[1]]
            /\ argi' = 2
            /\ pc' = "parse_loop"
    /\ UNCHANGED <<argv, locale, ubTolower, content, pos, line, idx, token, st,
                   top, printed, stdout, stderr, fs, exc, exitCode>>

\* a == "--help" || a == "-h": print_help(argv[0]); std::exit(0);
ParseHelp ==
    /\ pc = "parse_loop"
    /\ argi < argc
    /\ argv[argi] \in {"--help", "-h"}
    /\ stdout' = Append(stdout, HelpText)
    /\ exitCode' = "0"
    /\ pc' = "done"
    /\ UNCHANGED <<argv, locale, ubTolower, argi, conf, content, pos, line, idx,
                   token, st, top, printed, stderr, fs, exc>>

\* a == "--top" && i + 1 < argc: conf.topN = std::stoul(argv[++i]);
ParseTop ==
    /\ pc = "parse_loop"
    /\ argi < argc
    /\ argv[argi] = "--top"
    /\ argi + 1 < argc
    /\ stoul(argv[argi + 1]).ok
    /\ conf' = [conf EXCEPT !.topN = stoul(argv[argi + 1]).value]
    /\ argi' = argi + 2
    /\ UNCHANGED <<argv, locale, ubTolower, pc, content, pos, line, idx, token,
                   st, top, printed, stdout, stderr, fs, exc, exitCode>>

\* the same branch when std::stoul throws: parse_args is called outside
\* main's try block, so the exception leaves main and std::terminate ends
\* the process
ParseTopThrows ==
    /\ pc = "parse_loop"
    /\ argi < argc
    /\ argv[argi] = "--top"
    /\ argi + 1 < argc
    /\ ~stoul(argv[argi + 1]).ok
    /\ argi' = argi + 1
    /\ exc' = [type |-> "std::invalid_argument", what |-> "stoul", path |-> argv[argi + 1]]
    /\ exitCode' = "terminate"
    /\ pc' = "done"
    /\ UNCHANGED <<argv, locale, ubTolower, conf, content, pos, line, idx, token,
                   st, top, printed, stdout, stderr, fs>>

\* a == "--json" && i + 1 < argc: conf.json_path = argv[++i];
ParseJson ==
    /\ pc = "parse_loop"
    /\ argi < argc
    /\ argv[argi] = "--json"
    /\ argi + 1 < argc
    /\ conf' = [conf EXCEPT !.json_path = argv[argi + 1]]
    /\ argi' = argi + 2
    /\ UNCHANGED <<argv, locale, ubTolower, pc, content, pos, line, idx, token,
                   st, top, printed, stdout, stderr, fs, exc, exitCode>>

\* a == "--case-sensitive": conf.case_sensitive = true;
ParseCaseSensitive ==
    /\ pc = "parse_loop"
    /\ argi < argc
    /\ argv[argi] = "--case-sensitive"
    /\ conf' = [conf EXCEPT !.case_sensitive = TRUE]
    /\ argi' = argi + 1
    /\ UNCHANGED <<argv, locale, ubTolower, pc, content, pos, line, idx, token,
                   st, top, printed, stdout, stderr, fs, exc, exitCode>>

\* else: std::cerr << "Unknown argument: " << a; return false;
\* (also --top and --json as the last argument)
ParseUnknown ==
    /\ pc = "parse_loop"
    /\ argi < argc
    /\ argv[argi] \notin {"--help", "-h", "--case-sensitive"}
    /\ ~(argv[argi] \in {"--top", "--json"} /\ argi + 1 < argc)
    /\ stderr' = Append(stderr, Out("unknown", argv[argi], 0, <<>>))
    /\ pc' = "usage"
    /\ UNCHANGED <<argv, locale, ubTolower, argi, conf, content, pos, line, idx,
                   token, st, top, printed, stdout, fs, exc, exitCode>>

\* the for loop ends: return true; main enters the try block
ParseDone ==
    /\ pc = "parse_loop"
    /\ argi >= argc
    /\ pc' = "open_input"
    /\ UNCHANGED <<argv, locale, ubTolower, argi, conf, content, pos, line, idx,
                   token, st, top, printed, stdout, stderr, fs, exc, exitCode>>

\* if (!parse_args(...)) { print_help(argv[0]); return 1; }
Usage ==
    /\ pc = "usage"
    /\ stdout' = Append(stdout, HelpText)
    /\ exitCode' = "1"
    /\ pc' = "done"
    /\ UNCHANGED <<argv, locale, ubTolower, argi, conf, content, pos, line, idx,
                   token, st, top, printed, stderr, fs, exc>>

(***************************************************************************)
(* analyze_file: opening the file and the byte count.                      *)
(***************************************************************************)
\* std::ifstream in(conf.input_path); the file system decides
OpenInput ==
    /\ pc = "open_input"
    /\ \E c \in MainFiles :
          /\ content' = c
          /\ fs' = [fs EXCEPT !.inputOpen = "ok"]
    /\ pos' = 1
    /\ st' = Stats0
    /\ pc' = "getline"
    /\ UNCHANGED <<argv, locale, ubTolower, argi, conf, line, idx, token, top,
                   printed, stdout, stderr, exc, exitCode>>

\* a failed open that is not tested: the scan runs on a stream that
\* delivers nothing
OpenInputFails_Unchecked ==
    /\ pc = "open_input"
    /\ fs' = [fs EXCEPT !.inputOpen = "failed"]
    /\ content' = <<>>
    /\ pos' = 1
    /\ st' = Stats0
    /\ pc' = "getline"
    /\ UNCHANGED <<argv, locale, ubTolower, argi, conf, line, idx, token, top,
                   printed, stdout, stderr, exc, exitCode>>

\* if (!in) throw std::runtime_error("Cannot open input file: " + path);
OpenInputFails ==
    /\ pc = "open_input"
    /\ fs' = [fs EXCEPT !.inputOpen = "failed"]
    /\ exc' = [type |-> "std::runtime_error", what |-> "Cannot open input file: ",
               path |-> conf.input_path]
    /\ pc' = "catch"
    /\ UNCHANGED <<argv, locale, ubTolower, argi, conf, content, pos, line, idx,
                   token, st, top, printed, stdout, stderr, exitCode>>

BufSize == 16384

\* while (in2.read(buf, sizeof(buf)) || in2.gcount() > 0) bytes += gcount;
\* on a stream that delivers `avail` more bytes
RECURSIVE ReadLoop(_, _)
ReadLoop(avail, sum) ==
    LET gcount == Min(avail, BufSize)
        readOk == avail >= BufSize
    IN  IF readOk \/ gcount > 0
        THEN ReadLoop(avail - gcount, sum + gcount)
        ELSE sum

\* st.bytes = std::filesystem::file_size(path, ec) without an error
FileSize ==
    /\ pc = "file_size"
    /\ fs' = [fs EXCEPT !.sizeQuery = "ok"]
    /\ st' = [st EXCEPT !.bytes = Len(content)]
    /\ pc' = "top_k"
    /\ UNCHANGED <<argv, locale, ubTolower, argi, conf, content, pos, line, idx,
                   token, top, printed, stdout, stderr, exc, exitCode>>

\* if (ec): the fallback opens in2 in binary mode and sums what it reads;
\* in2 may deliver the whole file or stop early on a read error
FileSizeFallback ==
    /\ pc = "file_size"
    /\ \E avail \in 0..Len(content) :
          /\ fs' = [fs EXCEPT !.sizeQuery = "failed", !.reopen = "ok",
                              !.bytesRead = avail]
          /\ st' = [st EXCEPT !.bytes = ReadLoop(avail, 0)]
    /\ pc' = "top_k"
    /\ UNCHANGED <<argv, locale, ubTolower, argi, conf, content, pos, line, idx,
                   token, top, printed, stdout, stderr, exc, exitCode>>

\* if (ec) and in2 cannot be opened: in2 is not tested, the first read
\* fails with gcount() == 0 and the loop body never runs
FileSizeFallbackFails ==
    /\ pc = "file_size"
    /\ fs' = [fs EXCEPT !.sizeQuery = "failed", !.reopen = "failed"]
    /\ st' = [st EXCEPT !.bytes = ReadLoop(0, 0)]
    /\ pc' = "top_k"
    /\ UNCHANGED <<argv, locale, ubTolower, argi, conf, content, pos, line, idx,
                   token, top, printed, stdout, stderr, exc, exitCode>>

(***************************************************************************)
(* main: the report and the JSON export.                                   *)
(***************************************************************************)
\* the File, Lines, Words, Bytes and "Top n words" lines
ReportHead(c, s, t) ==
    << Out("File", c.input_path, 0, <<>>),
       Out("Lines", "", s.lines, <<>>),
       Out("Words", "", s.words, <<>>),
       Out("Bytes", "", s.bytes, <<>>),
       Out("Top", IF c.case_sensitive THEN " (case-sensitive)" ELSE " (case-insensitive)",
           Len(t), <<>>) >>

PrintHead ==
    /\ pc = "report"
    /\ stdout' = stdout \o ReportHead(conf, st, top)
    /\ printed' = 0
    /\ pc' = "print_top"
    /\ UNCHANGED <<argv, locale, ubTolower, argi, conf, content, pos, line, idx,
                   token, st, top, stderr, fs, exc, exitCode>>

\* for (const auto& [w, c] : top) std::cout << ... c ... w
PrintWord ==
    /\ pc = "print_top"
    /\ printed < Len(top)
    /\ stdout' = Append(stdout, Out("word", "", top[printed + 1][2], top[printed + 1][1]))
    /\ printed' = printed + 1
    /\ UNCHANGED <<argv, locale, ubTolower, pc, argi, conf, content, pos, line,
                   idx, token, st, top, stderr, fs, exc, exitCode>>

\* if (!conf.json_path.empty()) with an empty path: return 0;
NoExport ==
    /\ pc = "print_top"
    /\ printed >= Len(top)
    /\ conf.json_path = ""
    /\ exitCode' = "0"
    /\ pc' = "done"
    /\ UNCHANGED <<argv, locale, ubTolower, argi, conf, content, pos, line, idx,
                   token, st, top, printed, stdout, stderr, fs, exc>>

\* if (!conf.json_path.empty()) write_json(conf, st, top);
ExportStart ==
    /\ pc = "print_top"
    /\ printed >= Len(top)
    /\ conf.json_path # ""
    /\ pc' = "write_json"
    /\ UNCHANGED <<argv, locale, ubTolower, argi, conf, content, pos, line, idx,
                   token, st, top, printed, stdout, stderr, fs, exc, exitCode>>

\* json_escape rewrites quotes, backslashes and control characters; the
\* strings of ArgTokens hold none
json_escape(s) == s

\* the document write_json writes (the timestamp, the clock's, left out)
JsonDoc(c, s, t) ==
    [tool |-> "file-stats", input_path |-> json_escape(c.input_path),
     lines |-> s.lines, words |-> s.words, bytes |-> s.bytes,
     case_sensitive |-> c.case_sensitive, top_words |-> t]

\* write_json: std::ofstream out(conf.json_path) opens and the document is
\* written; back in main the confirmation line follows
WriteJson ==
    /\ pc = "write_json"
    /\ fs' = [fs EXCEPT !.jsonOpen = "ok", !.jsonFile = <<JsonDoc(conf, st, top)>>]
    /\ pc' = "confirm"
    /\ UNCHANGED <<argv, locale, ubTolower, argi, conf, content, pos, line, idx,
                   token, st, top, printed, stdout, stderr, exc, exitCode>>

\* a failed open of the output that is not tested: write_json returns
WriteJsonFails_Unchecked ==
    /\ pc = "write_json"
    /\ fs' = [fs EXCEPT !.jsonOpen = "failed"]
    /\ pc' = "confirm"
    /\ UNCHANGED <<argv, locale, ubTolower, argi, conf, content, pos, line, idx,
                   token, st, top, printed, stdout, stderr, exc, exitCode>>

\* if (!out) throw std::runtime_error("Cannot write JSON file: " + path);
WriteJsonFails ==
    /\ pc = "write_json"
    /\ fs' = [fs EXCEPT !.jsonOpen = "failed"]
    /\ exc' = [type |-> "std::runtime_error", what |-> "Cannot write JSON file: ",
               path |-> conf.json_path]
    /\ pc' = "catch"
    /\ UNCHANGED <<argv, locale, ubTolower, argi, conf, content, pos, line, idx,
                   token, st, top, printed, stdout, stderr, exitCode>>

\* std::cout << "\nJSON written to: " << conf.json_path; return 0;
Confirm ==
    /\ pc = "confirm"
    /\ stdout' = Append(stdout, Out("JSON written to", conf.json_path, 0, <<>>))
    /\ exitCode' = "0"
    /\ pc' = "done"
    /\ UNCHANGED <<argv, locale, ubTolower, argi, conf, content, pos, line, idx,
                   token, st, top, printed, stderr, fs, exc>>

\* catch (const std::exception& ex) { std::cerr << "Error: " ...; return 2; }
Catch ==
    /\ pc = "catch"
    /\ stderr' = Append(stderr, ErrorLine(exc))
    /\ exc' = "none"
    /\ exitCode' = "2"
    /\ pc' = "done"
    /\ UNCHANGED <<argv, locale, ubTolower, argi, conf, content, pos, line, idx,
                   token, st, top, printed, stdout, fs>>

\* the process at the entry of main, for every argument list
Init ==
    /\ argv \in SeqsUpTo(ArgTokens, MaxArgs)
    /\ \E env \in Environments : locale = env[1] /\ ubTolower = env[2]
    /\ pc = "parse_args"
    /\ argi = 0
    /\ conf = Conf0
    /\ content = <<>>
    /\ pos = 1
    /\ line = <<>>
    /\ idx = 0
    /\ token = <<>>
    /\ st = Stats0
    /\ top = <<>>
    /\ printed = 0
    /\ stdout = <<>>
    /\ stderr = <<>>
    /\ fs = Fs0
    /\ exc = "none"
    /\ exitCode = "running"

Next ==
    \/ ParseStart \/ ParseHelp \/ ParseTop \/ ParseTopThrows \/ ParseJson
    \/ ParseCaseSensitive \/ ParseUnknown \/ ParseDone \/ Usage
    \/ OpenInput \/ OpenInputFails
    \/ GetLine \/ ScanChar \/ EndOfLine \/ ScanDone
    \/ FileSize \/ FileSizeFallback \/ FileSizeFallbackFails
    \/ TopK \/ PrintHead \/ PrintWord \/ NoExport \/ ExportStart
    \/ WriteJson \/ WriteJsonFails \/ Confirm \/ Catch

Spec == Init /\ [][Next]_vars

(***************************************************************************)
(* Properties of an invocation.                                            *)
(***************************************************************************)
HasKind(outs, k) == \E i \in 1..Len(outs) : outs[i].kind = k

ReportKinds == {"File", "Lines", "Words", "Bytes", "Top", "word"}

NoReportLine == \A i \in 1..Len(stdout) : stdout[i].kind \notin ReportKinds

HelpFlags == {"--help", "-h"}

HelpGiven == \E i \in 1..Len(argv) : argv[i] \in HelpFlags

\* C5: whenever --help or -h is among the arguments, at any position, the
\* input file is never opened and no analysis is made, and the program ends
\* with the usage text on standard output and exit code 0 (runs that the
\* uncaught exception of C7 ends are left aside).
C5_HelpAtAnyPosition ==
    HelpGiven /\ exitCode # "terminate" =>
        /\ fs.inputOpen = "none"
        /\ st = Stats0
        /\ pc = "done" => exitCode = "0" /\ stdout = <<HelpText>>

\* argv[i] is consumed as the value of a --top or --json right before it
RECURSIVE IsValue(_, _)
IsValue(a, i) ==
    /\ i >= 3
    /\ a[i - 1] \in {"--top", "--json"}
    /\ ~IsValue(a, i - 1)

Recognized == HelpFlags \cup {"--top", "--json", "--case-sensitive"}

\* no input path, an unrecognized argument, or --top / --json last without
\* a value
UsageErrorArgs(a) ==
    \/ Len(a) = 0
    \/ \E i \in 2..Len(a) : ~IsValue(a, i) /\ a[i] \notin Recognized
    \/ /\ Len(a) >= 2
       /\ a[Len(a)] \in {"--top", "--json"}
       /\ ~IsValue(a, Len(a))

\* C6: an argument list with no input path, with an unrecognized argument
\* or with --top / --json last and without a value (lists asking for help,
\* which C5 covers, left aside) never gets the input file opened, a report
\* line printed or a JSON file written, and ends with the help text and
\* exit code 1.
C6_UsageErrorExitsOne ==
    UsageErrorArgs(argv) /\ ~HelpGiven =>
        /\ fs.inputOpen = "none"
        /\ fs.jsonOpen = "none"
        /\ NoReportLine
        /\ pc = "done" => exitCode = "1" /\ HasKind(stdout, "help")

\* C7: every invocation ends with exit code 0, 1 or 2 and in no other way:
\* 0 only after a completed analysis or help, 2 with an "Error: " message
\* on standard error, and no exception leaves main.
C7_ExitCodes ==
    pc = "done" =>
        /\ exitCode \in {"0", "1", "2"}
        /\ exc = "none"
        /\ exitCode = "0" => HasKind(stdout, "help") \/ HasKind(stdout, "Top")
        /\ exitCode = "2" => HasKind(stderr, "Error: ")

ParsePcs == {"parse_args", "parse_loop", "usage"}

\* C8: parse_args never consults the file system, so an input path that
\* cannot be opened raises no usage error; once the open has failed, for
\* every Config the arguments gave, nothing is on standard output, no JSON
\* file is opened or written, and the invocation ends with exit code 2 and
\* the error naming the path on standard error.
C8_UnreadableInput ==
    /\ pc \in ParsePcs => fs = Fs0
    /\ fs.inputOpen = "failed" =>
          /\ pc \in {"catch", "done"}
          /\ stdout = <<>>
          /\ fs.jsonOpen = "none" /\ fs.jsonFile = <<>>
          /\ ~HasKind(stderr, "unknown")
          /\ pc = "done" =>
                /\ exitCode = "2"
                /\ Len(stderr) = 1
                /\ stderr[1].kind = "Error: "
                /\ stderr[1].text = "Cannot open input file: "
                /\ stderr[1].path = conf.input_path

\* an unreadable input with a JSON path and a top count configured
C8_Witness ==
    /\ pc = "done"
    /\ fs.inputOpen = "failed"
    /\ conf.json_path = "abc"
    /\ exitCode = "2"

\* the whole console report of the run: head and one line per ranked word
FullReport ==
    ReportHead(conf, st, top)
        \o [i \in 1..Len(top) |-> Out("word", "", top[i][2], top[i][1])]

\* C9: the export starts only after the full report is printed; when the
\* output path cannot be opened the invocation ends with exit code 2 and no
\* confirmation line; the confirmation line is printed only after
\* write_json wrote the document; without an output path no file is opened
\* for writing.
C9_ExportAfterReport ==
    /\ (pc = "write_json" \/ fs.jsonOpen # "none") =>
          /\ conf.json_path # ""
          /\ Len(stdout) >= Len(FullReport)
          /\ SubSeq(stdout, 1, Len(FullReport)) = FullReport
    /\ fs.jsonOpen = "failed" =>
          /\ ~HasKind(stdout, "JSON written to")
          /\ fs.jsonFile = <<>>
          /\ pc = "done" => exitCode = "2"
    /\ HasKind(stdout, "JSON written to") =>
          /\ fs.jsonOpen = "ok"
          /\ fs.jsonFile = <<JsonDoc(conf, st, top)>>
          /\ stdout = Append(FullReport, Out("JSON written to", conf.json_path, 0, <<>>))
    /\ (pc = "done" /\ exitCode = "0" /\ conf.json_path # "" /\ ~HasKind(stdout, "help")) =>
          HasKind(stdout, "JSON written to")

\* a failed export after a report that listed two words
C9_Witness ==
    /\ pc = "done"
    /\ fs.jsonOpen = "failed"
    /\ Len(top) = 2
    /\ Len(stdout) = 7
    /\ exitCode = "2"

\* C10: the reported byte count is the size of the file; when the size
\* query fails it is the number of bytes the fallback read; when the size
\* query fails and the fallback cannot open the file either, the invocation
\* ends with exit code 2 and reports no byte count.
C10_ByteCount ==
    pc = "done" =>
        /\ fs.sizeQuery = "ok" =>
              \E i \in 1..Len(stdout) :
                 stdout[i].kind = "Bytes" /\ stdout[i].num = Len(content)
        /\ fs.sizeQuery = "failed" /\ fs.reopen = "ok" =>
              \E i \in 1..Len(stdout) :
                 stdout[i].kind = "Bytes" /\ stdout[i].num = fs.bytesRead
        /\ fs.sizeQuery = "failed" /\ fs.reopen = "failed" =>
              exitCode = "2" /\ ~HasKind(stdout, "Bytes")
====
